---- MODULE Spec2Model ----
(***************************************************************************)
(* A model of the PDF outline extractor of src/main.py: clean_text,        *)
(* is_noisy, extract_title, group_multiline_headings,                      *)
(* detect_heading_level and extract_outline.                               *)
(*                                                                         *)
(* A Python string is a sequence of one-character strings.  A font size    *)
(* is the integer number of tenths of a point that round(size, 1) yields   *)
(* (16.0 is 160); a threshold is kept in thousandths of a point, so that   *)
(* unique_sizes[0] * 0.85 is 85 * size and a size s meets a threshold t    *)
(* when 100 * s >= t.                                                      *)
(***************************************************************************)
EXTENDS Integers, Sequences, FiniteSets, TLC

VARIABLES
    pc,                 \* position of the modelled call
    text,               \* argument of clean_text / is_noisy
    result,             \* value returned by clean_text / is_noisy
    doc,                \* the pages PyMuPDF yields: pages of blocks of lines of spans
    heading_candidates, \* the list handed to group_multiline_headings
    idx,                \* index of the candidate the grouping loop visits next
    current_group,      \* current_group of group_multiline_headings
    grouped,            \* grouped of group_multiline_headings / the regrouped candidates
    title,              \* title returned by extract_title
    title_size,         \* title_size returned by extract_title (None when absent)
    thresholds,         \* thresholds of extract_outline
    outline,            \* outline of extract_outline
    outline_src         \* for each outline entry, the index in grouped it was built from

vars == <<pc, text, result, doc, heading_candidates, idx, current_group, grouped,
          title, title_size, thresholds, outline, outline_src>>

----------------------------------------------------------------------------
(* Characters *)

UpperLetters ==
    <<"A", "B", "C", "D", "E", "F", "G", "H", "I", "J", "K", "L", "M",
      "N", "O", "P", "Q", "R", "S", "T", "U", "V", "W", "X", "Y", "Z">>

LowerLetters ==
    <<"a", "b", "c", "d", "e", "f", "g", "h", "i", "j", "k", "l", "m",
      "n", "o", "p", "q", "r", "s", "t", "u", "v", "w", "x", "y", "z">>

Digits == {"0", "1", "2", "3", "4", "5", "6", "7", "8", "9"}

Range(f) == {f[i] : i \in DOMAIN f}

LowerSet == Range(LowerLetters)

UpperSet == Range(UpperLetters)

WordChars == LowerSet \cup UpperSet \cup Digits \cup {"_"}

\* the lowercase letter of each uppercase letter
LowerOf ==
    [c \in UpperSet |-> LowerLetters[CHOOSE i \in DOMAIN UpperLetters : UpperLetters[i] = c]]

\* str.islower() of one character
IsLower(c) == c \in LowerSet

\* \w of the re module
IsWordChar(c) == c \in WordChars

\* \s of the re module, and the characters str.split() and str.strip() drop
IsSpace(c) == c \in {" ", "\n", "\t"}

\* str.lower() of one character
LowerChar(c) == IF c \in UpperSet THEN LowerOf[c] ELSE c

----------------------------------------------------------------------------
(* The str methods the program calls *)

\* str.lower()
Lower(s) == [i \in DOMAIN s |-> LowerChar(s[i])]

\* str.replace(old, new) for one-character old and new
Replace(s, old, new) == [i \in DOMAIN s |-> IF s[i] = old THEN new ELSE s[i]]

\* first index >= i of s that holds no whitespace, Len(s) + 1 when there is none
RECURSIVE SkipSpaces(_, _)
SkipSpaces(s, i) ==
    IF i > Len(s) \/ ~IsSpace(s[i]) THEN i ELSE SkipSpaces(s, i + 1)

\* first index >= i of s that holds whitespace, Len(s) + 1 when there is none
RECURSIVE SkipWord(_, _)
SkipWord(s, i) ==
    IF i > Len(s) \/ IsSpace(s[i]) THEN i ELSE SkipWord(s, i + 1)

\* str.split() from index i on
RECURSIVE SplitFrom(_, _)
SplitFrom(s, i) ==
    LET b == SkipSpaces(s, i)
        e == SkipWord(s, b)
    IN  IF b > Len(s) THEN <<>>
        ELSE <<SubSeq(s, b, e - 1)>> \o SplitFrom(s, e)

\* str.split()
Split(s) == SplitFrom(s, 1)

\* sep.join(parts)
RECURSIVE Join(_, _)
Join(parts, sep) ==
    IF parts = <<>> THEN <<>>
    ELSE IF Len(parts) = 1 THEN parts[1]
    ELSE parts[1] \o sep \o Join(Tail(parts), sep)

\* last index of s that holds no whitespace, 0 when there is none
RECURSIVE LastNonSpace(_, _)
LastNonSpace(s, i) ==
    IF i = 0 \/ ~IsSpace(s[i]) THEN i ELSE LastNonSpace(s, i - 1)

\* str.strip()
Strip(s) == SubSeq(s, SkipSpaces(s, 1), LastNonSpace(s, Len(s)))

\* last index of s that holds neither "-" nor " ", 0 when there is none
RECURSIVE LastKept(_, _)
LastKept(s, i) ==
    IF i = 0 \/ s[i] \notin {"-", " "} THEN i ELSE LastKept(s, i - 1)

\* str.rstrip('- ')
RStripHyphenSpace(s) == SubSeq(s, 1, LastKept(s, Len(s)))

\* str.endswith('-')
EndsWithHyphen(s) == Len(s) > 0 /\ s[Len(s)] = "-"

\* noise_word in text
Contains(s, w) ==
    \E i \in 1..(Len(s) - Len(w) + 1) : SubSeq(s, i, i + Len(w) - 1) = w

----------------------------------------------------------------------------
(* clean_text *)

\* Where a match of (\w)-\s+(\w) that starts at index i ends, 0 when none starts
\* there.  \s+ takes the whole run of whitespace: a shorter run is followed by
\* whitespace, which \w refuses.
HyphenBreakEnd(s, i) ==
    LET j == SkipSpaces(s, i + 2)
    IN  IF /\ IsWordChar(s[i])
           /\ i + 1 <= Len(s) /\ s[i + 1] = "-"
           /\ j > i + 2
           /\ j <= Len(s) /\ IsWordChar(s[j])
        THEN j ELSE 0

\* re.sub(r'(\w)-\s+(\w)', r'\1\2', s) from index i on: the leftmost match is
\* replaced and the scan goes on behind it, so matches never overlap
RECURSIVE SubHyphenBreaks(_, _)
SubHyphenBreaks(s, i) ==
    IF i > Len(s) THEN <<>>
    ELSE LET j == HyphenBreakEnd(s, i)
         IN  IF j > 0 THEN <<s[i], s[j]>> \o SubHyphenBreaks(s, j + 1)
             ELSE <<s[i]>> \o SubHyphenBreaks(s, i + 1)

\* Where a match of (\w)\s+(\w) that starts at index i ends, 0 when none does
WordGapEnd(s, i) ==
    LET j == SkipSpaces(s, i + 1)
    IN  IF /\ IsWordChar(s[i])
           /\ j > i + 1
           /\ j <= Len(s) /\ IsWordChar(s[j])
        THEN j ELSE 0

\* The lambda of line 60 on the match s[i..j]: m.group(1) and m.group(2) are the
\* one-character groups (\w), m.group(0) is the whole match
WordGapReplacement(s, i, j) ==
    LET group1 == <<s[i]>>
        group2 == <<s[j]>>
        group0 == SubSeq(s, i, j)
    IN  IF Len(group1) > 2 /\ Len(group2) > 2 THEN group1 \o group2 ELSE group0

\* re.sub(r'(\w)\s+(\w)', lambda m: ..., s) from index i on
RECURSIVE SubWordGaps(_, _)
SubWordGaps(s, i) ==
    IF i > Len(s) THEN <<>>
    ELSE LET j == WordGapEnd(s, i)
         IN  IF j > 0 THEN WordGapReplacement(s, i, j) \o SubWordGaps(s, j + 1)
             ELSE <<s[i]>> \o SubWordGaps(s, i + 1)

\* " ".join(text.replace("\n", " ").split())
NormalizeWhitespace(s) == Join(Split(Replace(s, "\n", " ")), <<" ">>)

clean_text(s) ==
    Strip(SubWordGaps(SubHyphenBreaks(NormalizeWhitespace(s), 1), 1))

----------------------------------------------------------------------------
(* is_noisy *)

NOISE_WORDS ==
    { <<"o", "p", "e", "n", " ", "a", "c", "c", "e", "s", "s">>,
      <<"r", "e", "s", "e", "a", "r", "c", "h">>,
      <<"s", "u", "s", "t", "a", "i", "n", "a", "b", "l", "e", " ",
        "e", "n", "v", "i", "r", "o", "n", "m", "e", "n", "t">>,
      <<"a", "r", "t", "i", "c", "l", "e">>,
      <<"j", "o", "u", "r", "n", "a", "l">>,
      <<"a", "b", "s", "t", "r", "a", "c", "t">>,
      <<"i", "n", "t", "r", "o", "d", "u", "c", "t", "i", "o", "n">>,
      <<"r", "e", "f", "e", "r", "e", "n", "c", "e", "s">>,
      <<"a", "c", "k", "n", "o", "w", "l", "e", "d", "g", "m", "e", "n", "t", "s">>,
      <<"a", "p", "p", "e", "n", "d", "i", "x">>,
      <<"r", "e", "c", "e", "i", "v", "e", "d">>,
      <<"a", "c", "c", "e", "p", "t", "e", "d">>,
      <<"p", "u", "b", "l", "i", "s", "h", "e", "d">>,
      <<"v", "o", "l", "u", "m", "e">>,
      <<"i", "s", "s", "u", "e">>,
      <<"p", "p", ".">>,
      <<"p", "a", "g", "e", "s">> }

is_noisy(s) ==
    LET text_lower == Strip(Lower(s))
        contains_noise == \E noise_word \in NOISE_WORDS : Contains(text_lower, noise_word)
        is_too_short == Len(Strip(s)) <= 3
    IN  contains_noise \/ is_too_short

----------------------------------------------------------------------------
(* group_multiline_headings.  A candidate (size, text, page) is the record *)
(* [size, text, page].                                                     *)

Candidate(size, txt, page) == [size |-> size, text |-> txt, page |-> page]

\* text.split()[-1]
LastWord(s) == LET w == Split(s) IN w[Len(w)]

\* text.split()[0]
FirstWord(s) == Split(s)[1]

\* should_merge with the join rule's bound of 2 characters on the new first word
should_merge_first_word_2(group, candidate) ==
    /\ candidate.size = group.size
    /\ candidate.page = group.page
    /\ \/ IsLower(candidate.text[1])
       \/ Len(LastWord(group.text)) <= 3
       \/ Len(FirstWord(candidate.text)) <= 2

\* should_merge of lines 237-245
should_merge(group, candidate) ==
    /\ candidate.size = group.size
    /\ candidate.page = group.page
    /\ \/ IsLower(candidate.text[1])
       \/ Len(LastWord(group.text)) <= 3
       \/ Len(FirstWord(candidate.text)) <= 3

\* the text of the group after a merge, lines 249-256
merged_text(group_text, txt) ==
    IF \/ EndsWithHyphen(group_text)
       \/ Len(LastWord(group_text)) <= 2
       \/ Len(FirstWord(txt)) <= 2
    THEN RStripHyphenSpace(group_text) \o txt
    ELSE group_text \o <<" ">> \o txt

\* one pass of the loop body, lines 234-260, on the pair (grouped, current_group)
GroupLoopBody(st, candidate) ==
    IF should_merge(st.current_group, candidate)
    THEN [grouped |-> st.grouped,
          current_group |-> [st.current_group EXCEPT
                                !.text = merged_text(st.current_group.text, candidate.text)]]
    ELSE [grouped |-> Append(st.grouped, st.current_group),
          current_group |-> candidate]

\* the loop of line 233 over candidates[i..]
RECURSIVE GroupLoop(_, _, _)
GroupLoop(st, candidates, i) ==
    IF i > Len(candidates) THEN st
    ELSE GroupLoop(GroupLoopBody(st, candidates[i]), candidates, i + 1)

group_multiline_headings(candidates) ==
    IF candidates = <<>> THEN <<>>
    ELSE LET st == GroupLoop([grouped |-> <<>>, current_group |-> candidates[1]],
                             candidates, 2)
         IN  Append(st.grouped, st.current_group)

----------------------------------------------------------------------------
(* The texts the docstrings, the comments and the noise vocabulary speak of *)

TxtIntroToML ==
    <<"I", "n", "t", "r", "o", "d", "u", "c", "t", "i", "o", "n", " ", "t", "o", " ", "M", "a", "c", "h", "i", "n", "e", " ", "L", "e", "a", "r", "n", "i", "n", "g">>
TxtAbstract == <<"A", "b", "s", "t", "r", "a", "c", "t">>
TxtPg == <<"p", "g">>
TxtIntroductionTo ==
    <<"I", "n", "t", "r", "o", "d", "u", "c", "t", "i", "o", "n", " ", "t", "o">>
TxtMachineLearning ==
    <<"m", "a", "c", "h", "i", "n", "e", " ", "l", "e", "a", "r", "n", "i", "n", "g">>
TxtIntroHyphen == <<"I", "n", "t", "r", "o", "-">>
TxtDuction == <<"d", "u", "c", "t", "i", "o", "n">>
TxtIntroduction == <<"I", "n", "t", "r", "o", "d", "u", "c", "t", "i", "o", "n">>
TxtConclusion == <<"C", "o", "n", "c", "l", "u", "s", "i", "o", "n">>
TxtConclusionUpper == <<"C", "O", "N", "C", "L", "U", "S", "I", "O", "N">>
TxtData == <<"D", "a", "t", "a">>
TxtTheEnd == <<"T", "h", "e", " ", "E", "n", "d">>
TxtUnderStanding ==
    <<"u", "n", "d", "e", "r", "-", "\n", " ", "s", "t", "a", "n", "d", "i", "n", "g">>
TxtHyphenBreaks == <<"a", "-", " ", "b", "-", " ", "c">>
TxtDeepLearningFor ==
    <<"D", "e", "e", "p", " ", "L", "e", "a", "r", "n", "i", "n", "g", " ", "f", "o", "r">>
TxtComputerVision ==
    <<"C", "o", "m", "p", "u", "t", "e", "r", " ", "V", "i", "s", "i", "o", "n">>

\* the texts a span of the layouts below can carry
SpanTexts ==
    { TxtConclusion, TxtConclusionUpper, TxtData, TxtIntroHyphen, TxtDuction, TxtPg }

\* the texts a span of the first page can carry when extract_title alone reads it
TitleTexts ==
    { TxtDeepLearningFor, TxtComputerVision, TxtIntroHyphen, TxtData, TxtPg }

\* clean_text(span["text"]) and is_noisy of it for each of these texts, tabulated:
\* a constant is evaluated once, a call once per span and state
SpanClean == [t \in SpanTexts \cup TitleTexts |-> clean_text(t)]

SpanNoisy == [t \in SpanTexts \cup TitleTexts |-> is_noisy(clean_text(t))]

----------------------------------------------------------------------------
(* The layout PyMuPDF hands over.  A document is a sequence of pages, a    *)
(* page a sequence of blocks [bbox_y, lines], a line a sequence of spans   *)
(* [text, size]; a size is in hundredths of a point.                       *)

\* return "", None of extract_title: the absent title size
NoneSize == -1

\* previous_block_pos = None of extract_title: no title line seen yet
NonePos == -1

\* a function that returns None instead of a level
NoneLevel == "None"

\* round(size, 1), in hundredths of a point; a tie goes to the even tenth
Round1(size) ==
    LET q == size \div 10
        r == size % 10
    IN  IF r < 5 THEN 10 * q
        ELSE IF r > 5 THEN 10 * (q + 1)
        ELSE IF q % 2 = 0 THEN 10 * q ELSE 10 * (q + 1)

\* the lines of a page in the order the two nested loops over blocks and lines
\* visit them, each with its block's bbox[1]
RECURSIVE BlockLines(_, _)
BlockLines(block, k) ==
    IF k > Len(block.lines) THEN <<>>
    ELSE <<[block_pos |-> block.bbox_y, spans |-> block.lines[k]]>>
         \o BlockLines(block, k + 1)

RECURSIVE PageLines(_, _)
PageLines(page, b) ==
    IF b > Len(page) THEN <<>>
    ELSE BlockLines(page[b], 1) \o PageLines(page, b + 1)

\* the spans of a page in the order the three nested loops visit them
RECURSIVE Concat(_)
Concat(seqs) == IF seqs = <<>> THEN <<>> ELSE Head(seqs) \o Concat(Tail(seqs))

PageSpans(page) ==
    LET lines == PageLines(page, 1)
    IN  Concat([k \in DOMAIN lines |-> lines[k].spans])

SetMax(S) == CHOOSE m \in S : \A x \in S : x <= m

----------------------------------------------------------------------------
(* extract_title *)

\* the keys of size_to_texts after the first pass, lines 128-142
TitleSizes(page) ==
    LET spans == PageSpans(page)
    IN  { Round1(spans[k].size) : k \in
            { k \in DOMAIN spans :
                ~(SpanNoisy[spans[k].text] \/ Len(SpanClean[spans[k].text]) < 5) } }

\* line_texts of one line in the second pass, lines 161-170
TitleLineTexts(spans, max_size) ==
    LET IsTitleSpan(span) ==
            Round1(span.size) = max_size /\ ~SpanNoisy[span.text]
        kept == SelectSeq(spans, IsTitleSpan)
    IN  [k \in DOMAIN kept |-> SpanClean[kept[k].text]]

\* TitleLoopBody that starts a new title block without keeping the finished one
TitleLoopBody_drops_finished_block(st, line, max_size) ==
    LET line_texts == TitleLineTexts(line.spans, max_size)
        line_has_title == line_texts # <<>>
        full_line_text == Join(line_texts, <<" ">>)
        gap == IF line.block_pos >= st.previous_block_pos
               THEN line.block_pos - st.previous_block_pos
               ELSE st.previous_block_pos - line.block_pos
    IN  IF ~line_has_title THEN st
        ELSE IF /\ st.previous_block_pos # NonePos
                /\ gap < 20
                /\ Len(st.current_title_block) > 0
        THEN [st EXCEPT !.current_title_block = Append(@, full_line_text),
                        !.previous_block_pos = line.block_pos]
        ELSE [title_parts |-> st.title_parts,
              current_title_block |-> <<full_line_text>>,
              previous_block_pos |-> line.block_pos]

\* one line of the second pass, lines 160-187, on
\* (title_parts, previous_block_pos, current_title_block)
TitleLoopBody(st, line, max_size) ==
    LET line_texts == TitleLineTexts(line.spans, max_size)
        line_has_title == line_texts # <<>>
        full_line_text == Join(line_texts, <<" ">>)
        gap == IF line.block_pos >= st.previous_block_pos
               THEN line.block_pos - st.previous_block_pos
               ELSE st.previous_block_pos - line.block_pos
    IN  IF ~line_has_title THEN st
        ELSE IF /\ st.previous_block_pos # NonePos
                /\ gap < 20
                /\ Len(st.current_title_block) > 0
        THEN [st EXCEPT !.current_title_block = Append(@, full_line_text),
                        !.previous_block_pos = line.block_pos]
        ELSE [title_parts |->
                 IF st.current_title_block # <<>>
                 THEN Append(st.title_parts, Join(st.current_title_block, <<" ">>))
                 ELSE st.title_parts,
              current_title_block |-> <<full_line_text>>,
              previous_block_pos |-> line.block_pos]

RECURSIVE TitleLoop(_, _, _, _)
TitleLoop(st, lines, k, max_size) ==
    IF k > Len(lines) THEN st
    ELSE TitleLoop(TitleLoopBody(st, lines[k], max_size), lines, k + 1, max_size)

\* title_parts after the second pass, lines 151-191
TitleParts(page, max_size) ==
    LET st == TitleLoop([title_parts |-> <<>>,
                         previous_block_pos |-> NonePos,
                         current_title_block |-> <<>>],
                        PageLines(page, 1), 1, max_size)
    IN  IF st.current_title_block # <<>>
        THEN Append(st.title_parts, Join(st.current_title_block, <<" ">>))
        ELSE st.title_parts

\* extract_title(page): the pair [title, size]
extract_title(page) ==
    LET sizes == TitleSizes(page)
    IN  IF sizes = {} THEN [title |-> <<>>, size |-> NoneSize]
        ELSE [title |-> clean_text(Join(TitleParts(page, SetMax(sizes)), <<" ">>)),
              size |-> SetMax(sizes)]

----------------------------------------------------------------------------
(* extract_outline: the candidates of lines 361-390 *)

\* the spans of a line that is_noisy lets through, lines 374-385
KeptSpans(spans) ==
    LET NotNoisy(span) == ~SpanNoisy[span.text]
    IN  SelectSeq(spans, NotNoisy)

\* max_size_in_line taken from span["size"] as it is, the rounding forgotten
RECURSIVE MaxSizeInLine_unrounded(_, _, _)
MaxSizeInLine_unrounded(kept, k, max_size_in_line) ==
    IF k > Len(kept) THEN max_size_in_line
    ELSE MaxSizeInLine_unrounded(kept, k + 1,
                                 IF kept[k].size > max_size_in_line
                                 THEN kept[k].size ELSE max_size_in_line)

\* max_size_in_line: starts at 0 and grows with every kept span that is larger
RECURSIVE MaxSizeInLine(_, _, _)
MaxSizeInLine(kept, k, max_size_in_line) ==
    IF k > Len(kept) THEN max_size_in_line
    ELSE MaxSizeInLine(kept, k + 1,
                       IF Round1(kept[k].size) > max_size_in_line
                       THEN Round1(kept[k].size) ELSE max_size_in_line)

\* what one line appends to heading_candidates, lines 370-390
LineCandidates(spans, page_num) ==
    LET kept == KeptSpans(spans)
        line_text == [k \in DOMAIN kept |-> SpanClean[kept[k].text]]
        full_line_text == clean_text(Join(line_text, <<" ">>))
    IN  IF full_line_text # <<>> /\ Len(full_line_text) > 3 /\ ~is_noisy(full_line_text)
        THEN <<Candidate(MaxSizeInLine(kept, 1, 0), full_line_text, page_num)>>
        ELSE <<>>

PageCandidates(page, page_num) ==
    LET lines == PageLines(page, 1)
    IN  Concat([k \in DOMAIN lines |-> LineCandidates(lines[k].spans, page_num)])

\* heading_candidates before the grouping, pages counted from 1
CollectCandidates(d) ==
    Concat([p \in DOMAIN d |-> PageCandidates(d[p], p)])

\* for each candidate of CollectCandidates(d), the <<page, block, line>> at which
\* the loops of lines 364-390 appended it
PageOrigins(page, page_num) ==
    Concat([b \in DOMAIN page |->
        Concat([l \in DOMAIN page[b].lines |->
            IF LineCandidates(page[b].lines[l], page_num) # <<>>
            THEN << <<page_num, b, l>> >> ELSE <<>>])])

CandidateOrigins(d) == Concat([p \in DOMAIN d |-> PageOrigins(d[p], p)])

\* for each group of group_multiline_headings(candidates), the index of the
\* candidate that started it (line 231 for the first, line 260 for the others)
RECURSIVE GroupStartsFrom(_, _, _)
GroupStartsFrom(st, candidates, i) ==
    IF i > Len(candidates) THEN <<>>
    ELSE (IF should_merge(st.current_group, candidates[i]) THEN <<>> ELSE <<i>>)
         \o GroupStartsFrom(GroupLoopBody(st, candidates[i]), candidates, i + 1)

GroupStarts(candidates) ==
    IF candidates = <<>> THEN <<>>
    ELSE <<1>> \o GroupStartsFrom([grouped |-> <<>>, current_group |-> candidates[1]],
                                  candidates, 2)

----------------------------------------------------------------------------
(* extract_outline: thresholds and levels, lines 399-434 *)

\* heading_sizes of line 400, as the set line 405 makes of it
HeadingSizes(candidates, tsize) ==
    { candidates[k].size : k \in { k \in DOMAIN candidates : candidates[k].size # tsize } }

\* sorted(set(heading_sizes), reverse=True)
RECURSIVE SortedDescending(_)
SortedDescending(S) ==
    IF S = {} THEN <<>>
    ELSE LET m == SetMax(S) IN <<m>> \o SortedDescending(S \ {m})

\* thresholds whose H3 fallback takes the largest size, unique_sizes[0] * 0.7
BuildThresholds_H3_from_largest(unique_sizes) ==
    [H1 |-> IF Len(unique_sizes) > 0 THEN 100 * unique_sizes[1] ELSE 100 * 1600,
     H2 |-> IF Len(unique_sizes) > 1 THEN 100 * unique_sizes[2] ELSE 85 * unique_sizes[1],
     H3 |-> IF Len(unique_sizes) > 2 THEN 100 * unique_sizes[3]
            ELSE 70 * unique_sizes[1]]

\* thresholds of lines 408-412, in ten-thousandths of a point
BuildThresholds(unique_sizes) ==
    [H1 |-> IF Len(unique_sizes) > 0 THEN 100 * unique_sizes[1] ELSE 100 * 1600,
     H2 |-> IF Len(unique_sizes) > 1 THEN 100 * unique_sizes[2] ELSE 85 * unique_sizes[1],
     H3 |-> IF Len(unique_sizes) > 2 THEN 100 * unique_sizes[3]
            ELSE 70 * unique_sizes[Len(unique_sizes)]]

\* thresholds before line 408 is reached
NoThresholds == [H1 |-> NoneSize, H2 |-> NoneSize, H3 |-> NoneSize]

\* detect_heading_level without the test of lines 297-298
detect_heading_level_no_title_test(size, thr, tsize) ==
    IF 100 * size >= thr.H1 THEN "H1"
    ELSE IF 100 * size >= thr.H2 THEN "H2"
    ELSE IF 100 * size >= thr.H3 THEN "H3"
    ELSE NoneLevel

\* detect_heading_level with > for >= in the test of line 301
detect_heading_level_strict_H1(size, thr, tsize) ==
    IF size = tsize THEN NoneLevel
    ELSE IF 100 * size > thr.H1 THEN "H1"
    ELSE IF 100 * size >= thr.H2 THEN "H2"
    ELSE IF 100 * size >= thr.H3 THEN "H3"
    ELSE NoneLevel

detect_heading_level(size, thr, tsize) ==
    IF size = tsize THEN NoneLevel
    ELSE IF 100 * size >= thr.H1 THEN "H1"
    ELSE IF 100 * size >= thr.H2 THEN "H2"
    ELSE IF 100 * size >= thr.H3 THEN "H3"
    ELSE NoneLevel

\* the loop body without the test of lines 421-422
OutlineLoopBody_no_seen_test(st, candidate, k, thr, tsize) ==
    LET key == <<Lower(candidate.text), candidate.page>>
        level == detect_heading_level(candidate.size, thr, tsize)
    IN  IF level # NoneLevel
        THEN [outline |-> Append(st.outline, [level |-> level,
                                              text |-> candidate.text,
                                              page |-> candidate.page]),
              seen |-> st.seen \cup {key},
              src |-> Append(st.src, k)]
        ELSE [st EXCEPT !.seen = @ \cup {key}]

\* the loop body with outline.insert(0, ...) for outline.append(...)
OutlineLoopBody_insert_first(st, candidate, k, thr, tsize) ==
    LET key == <<Lower(candidate.text), candidate.page>>
        level == detect_heading_level(candidate.size, thr, tsize)
    IN  IF key \in st.seen THEN st
        ELSE IF level # NoneLevel
        THEN [outline |-> <<[level |-> level,
                             text |-> candidate.text,
                             page |-> candidate.page]>> \o st.outline,
              seen |-> st.seen \cup {key},
              src |-> <<k>> \o st.src]
        ELSE [st EXCEPT !.seen = @ \cup {key}]

\* one pass of the loop of lines 418-432 over candidate k, on (outline, seen), with
\* src the indices of the candidates the outline's entries were built from
OutlineLoopBody(st, candidate, k, thr, tsize) ==
    LET key == <<Lower(candidate.text), candidate.page>>
        level == detect_heading_level(candidate.size, thr, tsize)
    IN  IF key \in st.seen THEN st
        ELSE IF level # NoneLevel
        THEN [outline |-> Append(st.outline, [level |-> level,
                                              text |-> candidate.text,
                                              page |-> candidate.page]),
              seen |-> st.seen \cup {key},
              src |-> Append(st.src, k)]
        ELSE [st EXCEPT !.seen = @ \cup {key}]

RECURSIVE OutlineLoop(_, _, _, _, _)
OutlineLoop(st, candidates, k, thr, tsize) ==
    IF k > Len(candidates) THEN st
    ELSE OutlineLoop(OutlineLoopBody(st, candidates[k], k, thr, tsize),
                     candidates, k + 1, thr, tsize)

\* lines 395-434 of extract_outline: [thresholds, outline, src] for the regrouped
\* candidates and the title size
LevelAndDedup(candidates, tsize) ==
    LET unique_sizes == SortedDescending(HeadingSizes(candidates, tsize))
        thr == BuildThresholds(unique_sizes)
        st == OutlineLoop([outline |-> <<>>, seen |-> {}, src |-> <<>>],
                          candidates, 1, thr, tsize)
    IN  IF candidates = <<>> \/ unique_sizes = <<>>
        THEN [thresholds |-> NoThresholds, outline |-> <<>>, src |-> <<>>]
        ELSE [thresholds |-> thr, outline |-> st.outline, src |-> st.src]

----------------------------------------------------------------------------
(* Inputs *)

\* os.path.basename(pdf_path).replace(".pdf", "") of the file being read
FileStem == <<"f", "i", "l", "e">>

----------------------------------------------------------------------------
(* Bounds of the model *)

MaxTextLen == 7
MaxCandidates == 3
MaxSpans == 3
MaxPages == 2
MaxLevelCandidates == 3

TextAlphabet == {"a", "-", " ", "\n"}

\* every string over TextAlphabet of at most MaxTextLen characters, and the examples
TextInputs ==
    UNION { [1..n -> TextAlphabet] : n \in 0..MaxTextLen }
    \cup { TxtIntroToML, TxtAbstract, TxtPg, TxtUnderStanding, TxtHyphenBreaks }

Unused == <<>>

----------------------------------------------------------------------------
(* Specification SpecText: clean_text and is_noisy applied to a string *)

InitText ==
    /\ pc = "text"
    /\ text \in TextInputs
    /\ result = Unused
    /\ doc = Unused
    /\ heading_candidates = Unused
    /\ idx = 0
    /\ current_group = Unused
    /\ grouped = Unused
    /\ title = Unused
    /\ title_size = NoneSize
    /\ thresholds = NoThresholds
    /\ outline = Unused
    /\ outline_src = Unused

CleanText ==
    /\ pc = "text"
    /\ pc' = "cleaned"
    /\ result' = clean_text(text)
    /\ UNCHANGED <<text, doc, heading_candidates, idx, current_group, grouped,
                   title, title_size, thresholds, outline, outline_src>>

IsNoisy ==
    /\ pc = "text"
    /\ pc' = "judged"
    /\ result' = is_noisy(text)
    /\ UNCHANGED <<text, doc, heading_candidates, idx, current_group, grouped,
                   title, title_size, thresholds, outline, outline_src>>

NextText == CleanText \/ IsNoisy

SpecText == InitText /\ [][NextText]_vars

----------------------------------------------------------------------------
(* Claims about clean_text and is_noisy, under SpecText *)

\* C1: clean_text is idempotent: cleaning the text clean_text returned gives that
\* text again, for every input, strings with several hyphenated breaks included.
C1_CleanTextIdempotent ==
    pc = "cleaned" => clean_text(result) = result

\* the text is two fragments of word characters with one space between them
TwoFragments(s) ==
    \E k \in 2..(Len(s) - 1) :
        s[k] = " " /\ \A i \in DOMAIN s : i # k => IsWordChar(s[i])

GapOf(s) == CHOOSE k \in 2..(Len(s) - 1) : s[k] = " "

\* C7: clean_text merges two word fragments a space separates when both are longer
\* than 2 characters, and keeps the space when either has 2 characters or fewer.
C7_LongFragmentsMerged ==
    (pc = "cleaned" /\ TwoFragments(text)) =>
        LET k == GapOf(text)
            before == SubSeq(text, 1, k - 1)
            after == SubSeq(text, k + 1, Len(text))
        IN  result = IF Len(before) > 2 /\ Len(after) > 2
                     THEN before \o after
                     ELSE text

\* C8: is_noisy is False for "Introduction to Machine Learning", True for
\* "Abstract" and True for "pg", as its docstring says.
C8_DocstringExamples ==
    pc = "judged" =>
        /\ text = TxtIntroToML => result = FALSE
        /\ text = TxtAbstract => result = TRUE
        /\ text = TxtPg => result = TRUE

----------------------------------------------------------------------------
(* Specification SpecGroup: group_multiline_headings, one pass of its loop *)
(* per step, on a list of candidates in reading order                      *)

GroupTexts ==
    { TxtIntroHyphen, TxtDuction, TxtIntroductionTo, TxtMachineLearning,
      TxtTheEnd, TxtConclusion }

GroupSizes == {1400, 1600}

GroupPages == {1, 2}

GroupCandidates ==
    { Candidate(sz, t, p) : sz \in GroupSizes, t \in GroupTexts, p \in GroupPages }

\* the lists extract_outline can hand over: pages never decrease along the list
CandidateLists ==
    { l \in UNION { [1..n -> GroupCandidates] : n \in 0..MaxCandidates } :
        \A k \in 1..(Len(l) - 1) : l[k].page <= l[k + 1].page }

InitGroup ==
    /\ pc = "call"
    /\ heading_candidates \in CandidateLists
    /\ text = Unused
    /\ result = Unused
    /\ doc = Unused
    /\ idx = 0
    /\ current_group = Unused
    /\ grouped = Unused
    /\ title = Unused
    /\ title_size = NoneSize
    /\ thresholds = NoThresholds
    /\ outline = Unused
    /\ outline_src = Unused

\* lines 226-231: the empty list returns at once, else the first candidate
\* becomes the current group
GroupBegin ==
    /\ pc = "call"
    /\ IF heading_candidates = <<>>
       THEN /\ pc' = "returned"
            /\ grouped' = <<>>
            /\ UNCHANGED <<idx, current_group>>
       ELSE /\ pc' = "loop"
            /\ grouped' = <<>>
            /\ current_group' = heading_candidates[1]
            /\ idx' = 2
    /\ UNCHANGED <<text, result, doc, heading_candidates,
                   title, title_size, thresholds, outline, outline_src>>

\* lines 233-260: the loop body on the next candidate
GroupStep ==
    /\ pc = "loop"
    /\ idx <= Len(heading_candidates)
    /\ LET st == GroupLoopBody([grouped |-> grouped, current_group |-> current_group],
                               heading_candidates[idx])
       IN  /\ grouped' = st.grouped
           /\ current_group' = st.current_group
    /\ idx' = idx + 1
    /\ UNCHANGED <<pc, text, result, doc, heading_candidates,
                   title, title_size, thresholds, outline, outline_src>>

\* lines 262-264: the final group is added and the list returned
GroupEnd ==
    /\ pc = "loop"
    /\ idx > Len(heading_candidates)
    /\ grouped' = Append(grouped, current_group)
    /\ pc' = "returned"
    /\ UNCHANGED <<text, result, doc, heading_candidates, idx, current_group,
                   title, title_size, thresholds, outline, outline_src>>

NextGroup == GroupBegin \/ GroupStep \/ GroupEnd

SpecGroup == InitGroup /\ [][NextGroup]_vars

\* the steps return what the function computes
GroupStepsAgree ==
    pc = "returned" => grouped = group_multiline_headings(heading_candidates)

----------------------------------------------------------------------------
(* Claims about group_multiline_headings, under SpecGroup *)

\* C9: the candidates (16.0, "Introduction to", 1) and (16.0, "machine learning", 1)
\* are grouped into the one candidate (16.0, "Introduction to machine learning", 1),
\* joined with a single space, as the docstring says.
C9_DocstringExample ==
    (/\ pc = "returned"
     /\ heading_candidates = <<Candidate(1600, TxtIntroductionTo, 1),
                               Candidate(1600, TxtMachineLearning, 1)>>)
    => grouped = <<Candidate(1600, TxtIntroductionTo \o <<" ">> \o TxtMachineLearning, 1)>>

\* the condition the claim gives for a merge
ClaimedMerge(group, candidate) ==
    LET group_words == Split(group.text)
        new_words == Split(candidate.text)
    IN  /\ group.size = candidate.size
        /\ group.page = candidate.page
        /\ \/ candidate.text[1] \in Range(LowerLetters)
           \/ Len(group_words[Len(group_words)]) <= 3
           \/ Len(new_words[1]) <= 3

\* s ends with the characters of t
EndsWith(s, t) ==
    Len(s) >= Len(t) /\ SubSeq(s, Len(s) - Len(t) + 1, Len(s)) = t

\* what the claim says one step of the scan does with the candidate it visits
C10_Scan ==
    (pc = "loop" /\ pc' = "loop") =>
        LET candidate == heading_candidates[idx]
        IN  IF ClaimedMerge(current_group, candidate)
            THEN /\ grouped' = grouped
                 /\ current_group'.size = current_group.size
                 /\ current_group'.page = current_group.page
                 /\ EndsWith(current_group'.text, candidate.text)
                 /\ Len(current_group'.text) > Len(candidate.text)
            ELSE /\ grouped' = Append(grouped, current_group)
                 /\ current_group' = candidate

\* what the claim says of the end of the scan
C10_LastEmitted ==
    (pc = "loop" /\ pc' = "returned") => grouped' = Append(grouped, current_group)

C10_Example ==
    (/\ pc = "returned"
     /\ heading_candidates = <<Candidate(1600, TxtIntroHyphen, 2),
                               Candidate(1600, TxtDuction, 2)>>)
    => grouped = <<Candidate(1600, TxtIntroduction, 2)>>

\* C10: in the scan a candidate is merged into the current group exactly when it
\* has the group's size and page and starts with a lowercase letter, or the group's
\* last word or its own first word has at most 3 characters; otherwise the group is
\* emitted and the candidate starts a new one; the last group is always emitted;
\* (16, "Intro-", 2) then (16, "duction", 2) gives (16, "Introduction", 2).
C10_MergeIff ==
    /\ [][C10_Scan /\ C10_LastEmitted]_vars
    /\ []C10_Example

\* the scan of "Intro-", "duction" has returned the one candidate "Introduction"
C10_Witness ==
    /\ pc = "returned"
    /\ heading_candidates = <<Candidate(1600, TxtIntroHyphen, 2),
                              Candidate(1600, TxtDuction, 2)>>
    /\ grouped = <<Candidate(1600, TxtIntroduction, 2)>>

----------------------------------------------------------------------------
(* Specification SpecLevels: lines 395-434 of extract_outline applied to a *)
(* list of regrouped candidates and a title size                           *)

LevelSizes == {1000, 1200, 1400, 1600}

LevelTexts == {TxtData, TxtConclusion, TxtTheEnd}

LevelCandidates ==
    { Candidate(sz, t, 1) : sz \in LevelSizes, t \in LevelTexts }

\* the regrouped lists of at most MaxLevelCandidates candidates
LevelLists ==
    UNION { [1..n -> LevelCandidates] : n \in 0..MaxLevelCandidates }

InitLevels ==
    /\ pc = "grouped"
    /\ grouped \in LevelLists
    /\ title_size \in LevelSizes \cup {NoneSize}
    /\ text = Unused
    /\ result = Unused
    /\ doc = Unused
    /\ heading_candidates = Unused
    /\ idx = 0
    /\ current_group = Unused
    /\ title = Unused
    /\ thresholds = NoThresholds
    /\ outline = Unused
    /\ outline_src = Unused

AssignLevels ==
    /\ pc = "grouped"
    /\ LET r == LevelAndDedup(grouped, title_size)
       IN  /\ thresholds' = r.thresholds
           /\ outline' = r.outline
           /\ outline_src' = r.src
    /\ pc' = "done"
    /\ UNCHANGED <<text, result, doc, heading_candidates, idx, current_group, grouped,
                   title, title_size>>

NextLevels == AssignLevels

SpecLevels == InitLevels /\ [][NextLevels]_vars

----------------------------------------------------------------------------
(* Claims about the thresholds, under SpecLevels *)

\* the sizes of the candidates that are not of the title's size
NonTitleSizes == { grouped[k].size : k \in DOMAIN grouped } \ {title_size}

\* C4: for a non-empty collection of non-title candidate sizes the thresholds are
\* H1 = the largest distinct size, H2 = the second or 0.85 x the largest,
\* H3 = the third or 0.7 x the smallest, and H1 >= H2 >= H3, whether 1, 2 or
\* more distinct sizes are present.
C4_ThresholdsOrdered ==
    (pc = "done" /\ NonTitleSizes # {}) =>
        LET largest == SetMax(NonTitleSizes)
            smallest == CHOOSE m \in NonTitleSizes : \A x \in NonTitleSizes : m <= x
            below(x) == { y \in NonTitleSizes : y < x }
            n == Cardinality(NonTitleSizes)
        IN  /\ thresholds.H1 = 100 * largest
            /\ thresholds.H2 = IF n >= 2 THEN 100 * SetMax(below(largest))
                               ELSE 85 * largest
            /\ thresholds.H3 = IF n >= 3 THEN 100 * SetMax(below(SetMax(below(largest))))
                               ELSE 70 * smallest
            /\ thresholds.H1 >= thresholds.H2
            /\ thresholds.H2 >= thresholds.H3

\* thresholds were built from the single size 14.0 with both fallback ratios
C4_Witness ==
    /\ pc = "done"
    /\ Cardinality(NonTitleSizes) = 1
    /\ thresholds.H1 = 100 * 1400
    /\ thresholds.H2 = 85 * 1400
    /\ thresholds.H3 = 70 * 1400

----------------------------------------------------------------------------
(* Specification SpecOutline: a layout is laid out span by span, then      *)
(* extract_outline reads it                                                *)

\* span sizes as PyMuPDF reports them: 11.96, 14.0 and 16.0 points
SpanSizes == {1196, 1400, 1600}

\* blocks follow one another down the page, bbox[1] this far apart
BlockGap == 30

Span(t, sz) == [text |-> t, size |-> sz]

SpanCount(d) == Len(Concat([p \in DOMAIN d |-> PageSpans(d[p])]))

\* d with its last page replaced by page
WithLastPage(d, page) == [d EXCEPT ![Len(d)] = page]

\* page with its last block replaced by block
WithLastBlock(page, block) == [page EXCEPT ![Len(page)] = block]

InitOutline ==
    /\ pc = "layout"
    /\ doc = << <<>> >>
    /\ text = Unused
    /\ result = Unused
    /\ heading_candidates = Unused
    /\ idx = 0
    /\ current_group = Unused
    /\ grouped = Unused
    /\ title = Unused
    /\ title_size = NoneSize
    /\ thresholds = NoThresholds
    /\ outline = Unused
    /\ outline_src = Unused

LayoutUnchanged ==
    UNCHANGED <<pc, text, result, heading_candidates, idx, current_group, grouped,
                title, title_size, thresholds, outline, outline_src>>

\* one more span on the last line
AddSpan ==
    /\ pc = "layout"
    /\ SpanCount(doc) < MaxSpans
    /\ doc[Len(doc)] # <<>>
    /\ \E t \in SpanTexts, sz \in SpanSizes :
        LET page == doc[Len(doc)]
            block == page[Len(page)]
            line == block.lines[Len(block.lines)]
        IN  doc' = WithLastPage(doc, WithLastBlock(page,
                       [block EXCEPT !.lines[Len(block.lines)] = Append(line, Span(t, sz))]))
    /\ LayoutUnchanged

\* a new line in the last block
AddLine ==
    /\ pc = "layout"
    /\ SpanCount(doc) < MaxSpans
    /\ doc[Len(doc)] # <<>>
    /\ \E t \in SpanTexts, sz \in SpanSizes :
        LET page == doc[Len(doc)]
            block == page[Len(page)]
        IN  doc' = WithLastPage(doc, WithLastBlock(page,
                       [block EXCEPT !.lines = Append(@, <<Span(t, sz)>>)]))
    /\ LayoutUnchanged

\* a new block below the blocks of the last page
AddBlock ==
    /\ pc = "layout"
    /\ SpanCount(doc) < MaxSpans
    /\ \E t \in SpanTexts, sz \in SpanSizes :
        doc' = WithLastPage(doc, Append(doc[Len(doc)],
                   [bbox_y |-> BlockGap * Len(doc[Len(doc)]),
                    lines |-> << <<Span(t, sz)>> >>]))
    /\ LayoutUnchanged

\* a new, still blank page
AddPage ==
    /\ pc = "layout"
    /\ Len(doc) < MaxPages
    /\ doc[Len(doc)] # <<>>
    /\ SpanCount(doc) < MaxSpans
    /\ doc' = Append(doc, <<>>)
    /\ LayoutUnchanged

\* extract_outline(pdf_path), lines 352-434.  Each intermediate value is bound
\* once, as the code assigns it once.
ExtractOutline ==
    /\ pc = "layout"
    /\ \E t \in {extract_title(doc[1])} :
       \E candidates \in {CollectCandidates(doc)} :
       \E regrouped \in {group_multiline_headings(candidates)} :
       \E r \in {LevelAndDedup(regrouped, t.size)} :
           /\ title' = IF t.title = <<>> THEN FileStem ELSE t.title
           /\ title_size' = t.size
           /\ heading_candidates' = candidates
           /\ grouped' = regrouped
           /\ thresholds' = r.thresholds
           /\ outline' = r.outline
           /\ outline_src' = r.src
    /\ pc' = "done"
    /\ UNCHANGED <<text, result, doc, idx, current_group>>

NextOutline == AddSpan \/ AddLine \/ AddBlock \/ AddPage \/ ExtractOutline

SpecOutline == InitOutline /\ [][NextOutline]_vars

----------------------------------------------------------------------------
(* Claims about extract_outline, under SpecOutline *)

\* the pair the loop of lines 418-432 keeps in seen
DedupKey(h) == <<Lower(h.text), h.page>>

\* every outline entry carries the text and page of the candidate it is traced to
OutlineTraced ==
    /\ Len(outline_src) = Len(outline)
    /\ \A i \in DOMAIN outline :
        /\ outline_src[i] \in DOMAIN grouped
        /\ outline[i].text = grouped[outline_src[i]].text
        /\ outline[i].page = grouped[outline_src[i]].page

\* C2: when extract_title detected a title size, no heading of the outline comes
\* from a regrouped candidate of that size.
C2_TitleSizeExcluded ==
    (pc = "done" /\ title_size # NoneSize) =>
        /\ OutlineTraced
        /\ \A i \in DOMAIN outline : grouped[outline_src[i]].size # title_size

\* a title size was detected, a candidate has it, and the outline holds a heading
C2_Witness ==
    /\ pc = "done"
    /\ title_size # NoneSize
    /\ \E k \in DOMAIN grouped : grouped[k].size = title_size
    /\ outline # <<>>

\* C3: no two headings of the outline have the same (lower-cased text, page) pair,
\* and of the candidates with one pair only the first can be in the outline.
C3_NoDuplicateHeadings ==
    pc = "done" =>
        /\ OutlineTraced
        /\ \A i, j \in DOMAIN outline :
            i # j => DedupKey(outline[i]) # DedupKey(outline[j])
        /\ \A i \in DOMAIN outline : \A k \in 1..(outline_src[i] - 1) :
            DedupKey(grouped[k]) # DedupKey(outline[i])

\* two candidates that differ only in case share a page, and the first is a heading
C3_Witness ==
    /\ pc = "done"
    /\ \E i \in DOMAIN outline : \E l \in DOMAIN grouped :
        /\ outline_src[i] < l
        /\ DedupKey(grouped[l]) = DedupKey(outline[i])
        /\ grouped[l].text # outline[i].text

\* a <<page, block, line>> comes before another in the scan
ScannedBefore(a, b) ==
    \/ a[1] < b[1]
    \/ a[1] = b[1] /\ a[2] < b[2]
    \/ a[1] = b[1] /\ a[2] = b[2] /\ a[3] < b[3]

\* C5: the outline is in reading order: of two headings the earlier one has the
\* smaller or equal page, and the line its text begins with was scanned first
\* (page, then block, then line); levels and sizes do not reorder it.
C5_ReadingOrder ==
    pc = "done" =>
        \E origins \in {CandidateOrigins(doc)} :
        \E starts \in {GroupStarts(heading_candidates)} :
            /\ OutlineTraced
            /\ Len(origins) = Len(heading_candidates)
            /\ Len(starts) = Len(grouped)
            /\ \A i \in DOMAIN outline :
                outline[i].page = origins[starts[outline_src[i]]][1]
            /\ \A i, j \in DOMAIN outline :
                i < j => /\ outline[i].page <= outline[j].page
                         /\ ScannedBefore(origins[starts[outline_src[i]]],
                                          origins[starts[outline_src[j]]])

\* an H2 heading stands before an H1 heading of the same page
C5_Witness ==
    /\ pc = "done"
    /\ \E i, j \in DOMAIN outline :
        /\ i < j
        /\ outline[i].page = outline[j].page
        /\ outline[i].level = "H2"
        /\ outline[j].level = "H1"

\* the spans of the whole document
DocSpans == Concat([p \in DOMAIN doc |-> PageSpans(doc[p])])

SingleSizeOnePage ==
    /\ Len(doc) = 1
    /\ \A a, b \in DOMAIN DocSpans : DocSpans[a].size = DocSpans[b].size

\* C6 as stated: a one-page document whose spans all have one font size gives an
\* empty outline.
C6_SingleSizeEmptyOutline ==
    (pc = "done" /\ SingleSizeOnePage) => outline = <<>>

\* a span extract_title counts: not noisy and of at least 5 characters once cleaned
TitleEligible(span) ==
    ~is_noisy(clean_text(span.text)) /\ Len(clean_text(span.text)) >= 5

\* C6 amended: a one-page document whose spans all have one font size, one of them
\* not noisy and of at least 5 characters, gives that size as the title size and
\* an empty outline.
C6_SingleSizeWithTitleEmptyOutline ==
    (/\ pc = "done"
     /\ SingleSizeOnePage
     /\ \E a \in DOMAIN DocSpans : TitleEligible(DocSpans[a]))
    => /\ title_size = Round1(DocSpans[1].size)
       /\ outline = <<>>

\* a one-page, single-size document with a title and two candidates was read
C6_Witness ==
    /\ pc = "done"
    /\ SingleSizeOnePage
    /\ title_size # NoneSize
    /\ Len(grouped) >= 2
    /\ outline = <<>>

\* a heading of the outline with the candidate's pair was emitted before the loop
\* reached candidate k
EmittedBefore(k) ==
    \E i \in DOMAIN outline :
        outline_src[i] < k /\ DedupKey(outline[i]) = DedupKey(grouped[k])

\* C11: a leveled candidate is dropped only when a heading with its (lower-cased
\* text, page) pair was already emitted: every regrouped candidate that classifies
\* as H1, H2 or H3 and whose pair is not yet in the outline is in the outline, also
\* when an earlier candidate with the pair was discarded as title-sized or
\* unclassified.
C11_DroppedOnlyIfEmitted ==
    (pc = "done" /\ thresholds # NoThresholds) =>
        /\ OutlineTraced
        /\ \A k \in DOMAIN grouped :
            (/\ detect_heading_level(grouped[k].size, thresholds, title_size) # NoneLevel
             /\ ~EmittedBefore(k))
            => \E i \in DOMAIN outline : outline_src[i] = k

\* C14: no heading of the outline has noisy text: is_noisy is false of the text of
\* every emitted heading (it is longer than 3 characters and holds no entry of the
\* noise vocabulary), also when grouping has concatenated candidates.
C14_NoNoisyHeading ==
    pc = "done" => \A i \in DOMAIN outline : ~is_noisy(outline[i].text)

----------------------------------------------------------------------------
(* Claims about the levels of a document of few sizes, under SpecLevels *)

\* the levels of the headings of an outline
LevelsOf(o) == { o[i].level : i \in DOMAIN o }

\* for each set of sizes: some list of candidates whose non-title sizes are that
\* set gets headings of all three levels
AllLevelsPopulated ==
    [S \in SUBSET LevelSizes |->
        \E g \in LevelLists, t \in LevelSizes \cup {NoneSize} :
            /\ { g[k].size : k \in DOMAIN g } \ {t} = S
            /\ LevelsOf(LevelAndDedup(g, t).outline) = {"H1", "H2", "H3"}]

\* C12 as stated: with one or two distinct non-title candidate sizes the fallback
\* thresholds let all three levels be populated: some document of those sizes has
\* headings of level H1, H2 and H3.
C12_AllThreeLevelsPossible ==
    (pc = "done" /\ Cardinality(NonTitleSizes) \in 1..2) =>
        AllLevelsPopulated[NonTitleSizes]

\* C12 amended: with one or two distinct non-title candidate sizes the thresholds
\* are the largest size, the second size or 0.85 x the largest, and 0.7 x the
\* smallest; every candidate of the largest size classifies as H1 and every other
\* one as H2, so no heading is H3, and none is H2 when there is one size.
C12_LevelsBoundedBySizes ==
    (pc = "done" /\ Cardinality(NonTitleSizes) \in 1..2) =>
        LET largest == SetMax(NonTitleSizes)
            smallest == CHOOSE m \in NonTitleSizes : \A x \in NonTitleSizes : m <= x
        IN  /\ OutlineTraced
            /\ thresholds.H1 = 100 * largest
            /\ thresholds.H2 = IF largest = smallest THEN 85 * largest
                               ELSE 100 * smallest
            /\ thresholds.H3 = 70 * smallest
            /\ \A i \in DOMAIN outline :
                outline[i].level = IF grouped[outline_src[i]].size = largest
                                   THEN "H1" ELSE "H2"
            /\ "H3" \notin LevelsOf(outline)
            /\ largest = smallest => LevelsOf(outline) \subseteq {"H1"}

\* three headings were emitted from candidates of two sizes: levels H1 and H2 only
C12_Witness ==
    /\ pc = "done"
    /\ Cardinality(NonTitleSizes) = 2
    /\ Len(outline) = 3
    /\ LevelsOf(outline) = {"H1", "H2"}

----------------------------------------------------------------------------
(* Specification SpecTitle: the first page is laid out span by span, its   *)
(* blocks at any of a few top-Y positions, then extract_title reads it     *)

MaxTitleSpans == 3

\* span sizes as PyMuPDF reports them: 11.96 and 24.0 points
TitleSpanSizes == {1196, 2400}

\* block["bbox"][1] of a block: gaps of 0, 10, 20 and 30 units occur
BlockYs == {0, 10, 30}

InitTitle ==
    /\ pc = "page"
    /\ doc = << <<>> >>
    /\ text = Unused
    /\ result = Unused
    /\ heading_candidates = Unused
    /\ idx = 0
    /\ current_group = Unused
    /\ grouped = Unused
    /\ title = Unused
    /\ title_size = NoneSize
    /\ thresholds = NoThresholds
    /\ outline = Unused
    /\ outline_src = Unused

PageUnchanged ==
    UNCHANGED <<pc, text, result, heading_candidates, idx, current_group, grouped,
                title, title_size, thresholds, outline, outline_src>>

\* one more span on the last line of the page
TitleAddSpan ==
    /\ pc = "page"
    /\ SpanCount(doc) < MaxTitleSpans
    /\ doc[1] # <<>>
    /\ \E t \in TitleTexts, sz \in TitleSpanSizes :
        LET block == doc[1][Len(doc[1])]
            line == block.lines[Len(block.lines)]
        IN  doc' = <<WithLastBlock(doc[1],
                       [block EXCEPT !.lines[Len(block.lines)] = Append(line, Span(t, sz))])>>
    /\ PageUnchanged

\* a new line in the last block of the page
TitleAddLine ==
    /\ pc = "page"
    /\ SpanCount(doc) < MaxTitleSpans
    /\ doc[1] # <<>>
    /\ \E t \in TitleTexts, sz \in TitleSpanSizes :
        LET block == doc[1][Len(doc[1])]
        IN  doc' = <<WithLastBlock(doc[1],
                       [block EXCEPT !.lines = Append(@, <<Span(t, sz)>>)])>>
    /\ PageUnchanged

\* a new block, anywhere on the page
TitleAddBlock ==
    /\ pc = "page"
    /\ SpanCount(doc) < MaxTitleSpans
    /\ \E t \in TitleTexts, sz \in TitleSpanSizes, y \in BlockYs :
        doc' = <<Append(doc[1], [bbox_y |-> y, lines |-> << <<Span(t, sz)>> >>])>>
    /\ PageUnchanged

\* extract_title(page), lines 128-195; result keeps title_parts as line 194 reads it
ExtractTitle ==
    /\ pc = "page"
    /\ \E t \in {extract_title(doc[1])} :
        /\ title' = t.title
        /\ title_size' = t.size
        /\ result' = IF t.size = NoneSize THEN <<>> ELSE TitleParts(doc[1], t.size)
    /\ pc' = "done"
    /\ UNCHANGED <<text, doc, heading_candidates, idx, current_group, grouped,
                   thresholds, outline, outline_src>>

NextTitle == TitleAddSpan \/ TitleAddLine \/ TitleAddBlock \/ ExtractTitle

SpecTitle == InitTitle /\ [][NextTitle]_vars

----------------------------------------------------------------------------
(* Claims about extract_title, under SpecTitle *)

\* the rounded sizes of the spans that are not noisy and have 5 characters or more
EligibleSizes ==
    LET spans == PageSpans(doc[1])
    IN  { Round1(spans[k].size) : k \in
            { k \in DOMAIN spans : /\ ~SpanNoisy[spans[k].text]
                                   /\ Len(SpanClean[spans[k].text]) >= 5 } }

\* the title spans of a line: those of the size that are not noisy
TitleSpansOf(line, maxSize) ==
    LET Is(span) == Round1(span.size) = maxSize /\ ~SpanNoisy[span.text]
    IN  SelectSeq(line.spans, Is)

\* the title lines of a page in document order, each with its block's top Y and
\* the space-joined cleaned texts of its title spans
ClaimedTitleLines(page, maxSize) ==
    LET lines == PageLines(page, 1)
        Has(line) == TitleSpansOf(line, maxSize) # <<>>
        kept == SelectSeq(lines, Has)
    IN  [k \in DOMAIN kept |->
            [block_pos |-> kept[k].block_pos,
             text |-> LET sp == TitleSpansOf(kept[k], maxSize)
                      IN  Join([j \in DOMAIN sp |-> SpanClean[sp[j].text]], <<" ">>)]]

Distance(a, b) == IF a >= b THEN a - b ELSE b - a

\* the title blocks the claim describes: a title line joins the block of the title
\* line before it when their blocks are less than 20 units apart, else starts one
RECURSIVE ClaimedBlocks(_, _)
ClaimedBlocks(tlines, k) ==
    IF k = 0 THEN <<>>
    ELSE LET before == ClaimedBlocks(tlines, k - 1)
         IN  IF k > 1 /\ Distance(tlines[k].block_pos, tlines[k - 1].block_pos) < 20
             THEN [before EXCEPT ![Len(before)] = @ \o <<" ">> \o tlines[k].text]
             ELSE Append(before, tlines[k].text)

\* the page with every block moved to the top
Flattened(page) == [b \in DOMAIN page |-> [page[b] EXCEPT !.bbox_y = 0]]

TwoLineTitlePage ==
    << [bbox_y |-> 0, lines |-> << <<Span(TxtDeepLearningFor, 2400)>> >>],
       [bbox_y |-> 10, lines |-> << <<Span(TxtComputerVision, 2400)>> >>] >>

\* C13: when some span is not noisy and has 5 characters or more, extract_title
\* returns maxSize, the largest rounded size among those spans, and clean_text of
\* the space-joined texts of all title lines (lines with a non-noisy span of that
\* size) in document order; title lines whose blocks are less than 20 units apart
\* share a title block and a larger gap starts a new one, all blocks being joined;
\* the text is the same wherever the blocks are; "Deep Learning for" and
\* "Computer Vision" at size 24, 10 units apart, give
\* ("Deep Learning for Computer Vision", 24).
C13_TitleOfAllTitleLines ==
    (pc = "done" /\ EligibleSizes # {}) =>
        \E tlines \in {ClaimedTitleLines(doc[1], SetMax(EligibleSizes))} :
            /\ title_size = SetMax(EligibleSizes)
            /\ title = clean_text(Join([k \in DOMAIN tlines |-> tlines[k].text], <<" ">>))
            /\ result = ClaimedBlocks(tlines, Len(tlines))
            /\ Join(result, <<" ">>) = Join([k \in DOMAIN tlines |-> tlines[k].text], <<" ">>)
            /\ title = extract_title(Flattened(doc[1])).title
            /\ doc[1] = TwoLineTitlePage =>
                /\ title = TxtDeepLearningFor \o <<" ">> \o TxtComputerVision
                /\ title_size = 2400

\* three title lines were read: two in blocks 10 apart, the third 20 further down
C13_Witness ==
    /\ pc = "done"
    /\ title_size = 2400
    /\ Len(doc[1]) = 3
    /\ doc[1][1].bbox_y = 0 /\ doc[1][2].bbox_y = 10 /\ doc[1][3].bbox_y = 30
    /\ Len(result) = 2
    /\ title = TxtDeepLearningFor \o <<" ">> \o TxtComputerVision
                \o <<" ">> \o TxtComputerVision

====
